---- MODULE Spec2Model ----
(***************************************************************************)
(* Model of the log-analysis pipeline of app.py, kql_parser.py,            *)
(* analyzer.py and rules.py: NDJSON ingestion and ECS normalisation, the   *)
(* simplified KQL tokenizer / parser / evaluator, the keyword rule         *)
(* detector and the 25-bucket time histogram.                              *)
(*                                                                         *)
(* Python values are tagged records; a Python dict is a sequence of        *)
(* <<key, value>> pairs in insertion order; a Python str is a TLA+ string  *)
(* (a sequence of characters: Len, \o and SubSeq are the only string       *)
(* operations used).                                                       *)
(***************************************************************************)
EXTENDS Integers, Sequences, FiniteSets, TLC

VARIABLES
    stream,      \* the lines file_storage.stream has yielded so far
    events,      \* parse_ndjson_file: events
    errors,      \* parse_ndjson_file: errors
    warns,       \* parse_ndjson_file: warns
    pc,          \* position of the run
    exc,         \* the exception that ended the run, "none" when there is none
    query,       \* the query string handed to filter_events_by_kql
    tokens,      \* filter_events_by_kql: tokens
    conditions,  \* filter_events_by_kql: conditions
    operators,   \* filter_events_by_kql: operators
    visible,     \* the list filter_events_by_kql returned
    hits,        \* detect_rule_warnings: hits
    hist,        \* the value build_histogram returned
    ALL_EVENTS,     \* the module-level ALL_EVENTS of app.py
    LAST_FILENAME,  \* the module-level LAST_FILENAME of app.py
    uploaded        \* the file of the most recent request that carried one

vars == <<stream, events, errors, warns, pc, exc, query, tokens, conditions,
          operators, visible, hits, hist, ALL_EVENTS, LAST_FILENAME, uploaded>>

(***************************************************************************)
(* Bounds of the model.                                                    *)
(***************************************************************************)
MaxLines == 2

MaxQueryTokens == 3

MaxEvents == 2

(***************************************************************************)
(* Python str methods, on ASCII.                                           *)
(***************************************************************************)
LowerTable ==
    ("A" :> "a") @@ ("B" :> "b") @@ ("C" :> "c") @@ ("D" :> "d") @@ ("E" :> "e") @@
    ("F" :> "f") @@ ("G" :> "g") @@ ("H" :> "h") @@ ("I" :> "i") @@ ("J" :> "j") @@
    ("K" :> "k") @@ ("L" :> "l") @@ ("M" :> "m") @@ ("N" :> "n") @@ ("O" :> "o") @@
    ("P" :> "p") @@ ("Q" :> "q") @@ ("R" :> "r") @@ ("S" :> "s") @@ ("T" :> "t") @@
    ("U" :> "u") @@ ("V" :> "v") @@ ("W" :> "w") @@ ("X" :> "x") @@ ("Y" :> "y") @@
    ("Z" :> "z")

DigitValue ==
    ("0" :> 0) @@ ("1" :> 1) @@ ("2" :> 2) @@ ("3" :> 3) @@ ("4" :> 4) @@
    ("5" :> 5) @@ ("6" :> 6) @@ ("7" :> 7) @@ ("8" :> 8) @@ ("9" :> 9)

IsDigit(c) == c \in DOMAIN DigitValue

\* \w of the re module, on ASCII
IsWordChar(c) ==
    \/ c \in DOMAIN LowerTable
    \/ c \in {LowerTable[u] : u \in DOMAIN LowerTable}
    \/ IsDigit(c)
    \/ c = "_"

\* what str.strip() removes and \S excludes
IsSpace(c) == c \in {" ", "\t", "\n", "\r"}

CharAt(s, i) == SubSeq(s, i, i)

Rest(s, i) == SubSeq(s, i, Len(s))

\* s.lower(), character by character
RECURSIVE Lower(_)
Lower(s) ==
    IF s = "" THEN ""
    ELSE IF Len(s) = 1 THEN (IF s \in DOMAIN LowerTable THEN LowerTable[s] ELSE s)
    ELSE Lower(SubSeq(s, 1, Len(s) \div 2)) \o Lower(Rest(s, Len(s) \div 2 + 1))

\* Python: t in s, for two str
Contains(s, t) ==
    \/ t = ""
    \/ \E i \in 1..(Len(s) - Len(t) + 1) : SubSeq(s, i, i + Len(t) - 1) = t

StartsWith(s, t) == Len(t) <= Len(s) /\ SubSeq(s, 1, Len(t)) = t

EndsWith(s, t) == Len(t) <= Len(s) /\ SubSeq(s, Len(s) - Len(t) + 1, Len(s)) = t

\* s.lstrip(): s from its first character that is not a space on
LStrip(s) ==
    LET kept == {i \in 1..Len(s) : ~IsSpace(CharAt(s, i))}
    IN IF kept = {} THEN "" ELSE Rest(s, CHOOSE i \in kept : \A j \in kept : i <= j)

\* s.rstrip(): s up to its last character that is not a space
RStrip(s) ==
    LET kept == {i \in 1..Len(s) : ~IsSpace(CharAt(s, i))}
    IN IF kept = {} THEN "" ELSE SubSeq(s, 1, CHOOSE i \in kept : \A j \in kept : i >= j)

Strip(s) == RStrip(LStrip(s))

\* the position of the first occurrence of the character c in s from i on, 0 when
\* there is none
FindFrom(s, c, i) ==
    LET at == {j \in i..Len(s) : CharAt(s, j) = c}
    IN IF at = {} THEN 0 ELSE CHOOSE j \in at : \A k \in at : j <= k

Find(s, c) == FindFrom(s, c, 1)

\* s.replace(a, b) for a single character a, half by half
RECURSIVE Replace(_, _, _)
Replace(s, a, b) ==
    IF s = "" THEN ""
    ELSE IF Len(s) = 1 THEN (IF s = a THEN b ELSE s)
    ELSE Replace(SubSeq(s, 1, Len(s) \div 2), a, b) \o Replace(Rest(s, Len(s) \div 2 + 1), a, b)

AllDigits(s) == s # "" /\ \A i \in 1..Len(s) : IsDigit(CharAt(s, i))

RECURSIVE ToInt(_)
ToInt(s) ==
    IF s = "" THEN 0
    ELSE 10 * ToInt(SubSeq(s, 1, Len(s) - 1)) + DigitValue[CharAt(s, Len(s))]

Pad2(n) == IF n < 10 THEN "0" \o ToString(n) ELSE ToString(n)

(***************************************************************************)
(* Python values: what json.loads yields, plus datetime.                   *)
(***************************************************************************)
None == [t |-> "null"]

JBool(b) == [t |-> "bool", b |-> b]

JNum(n) == [t |-> "num", n |-> n]

JStr(s) == [t |-> "str", s |-> s]

JList(items) == [t |-> "list", items |-> items]

JObj(pairs) == [t |-> "obj", pairs |-> pairs]

\* Python truthiness
Truthy(v) ==
    CASE v.t = "null" -> FALSE
      [] v.t = "bool" -> v.b
      [] v.t = "num"  -> v.n # 0
      [] v.t = "str"  -> v.s # ""
      [] v.t = "list" -> v.items # <<>>
      [] v.t = "obj"  -> v.pairs # <<>>
      [] OTHER        -> TRUE

\* dict operations on a sequence of <<key, value>> pairs
HasKey(d, k) == \E i \in 1..Len(d) : d[i][1] = k

DictGet(d, k, default) ==
    IF HasKey(d, k) THEN d[CHOOSE i \in 1..Len(d) : d[i][1] = k][2] ELSE default

DictSet(d, k, v) ==
    IF HasKey(d, k)
    THEN [i \in 1..Len(d) |-> IF d[i][1] = k THEN <<k, v>> ELSE d[i]]
    ELSE Append(d, <<k, v>>)

\* Python: key in c, for a str key. Raises TypeError unless c is a dict, str or list.
InRaises(c) == c.t \notin {"obj", "str", "list"}

In(key, c) ==
    CASE c.t = "obj"  -> HasKey(c.pairs, key)
      [] c.t = "str"  -> Contains(c.s, key)
      [] c.t = "list" -> \E i \in 1..Len(c.items) : c.items[i] = JStr(key)
      [] OTHER        -> FALSE

\* repr() of a str: single quotes, unless it holds ' and no "
ReprStrBody(s, q) == q \o Replace(Replace(s, "\\", "\\\\"), q, "\\" \o q) \o q

ReprStr(s) ==
    IF Contains(s, "'") /\ ~Contains(s, "\"") THEN ReprStrBody(s, "\"")
    ELSE ReprStrBody(s, "'")

\* str(datetime): isoformat with a space separator
DateTimeStr(d) ==
    LET secs == d.cs \div 100
        frac == d.cs % 100
        hh   == secs \div 3600
        mm   == (secs % 3600) \div 60
        ss   == secs % 60
        a    == IF d.off < 0 THEN -d.off ELSE d.off
    IN "2025-01-01 " \o Pad2(hh) \o ":" \o Pad2(mm) \o ":" \o Pad2(ss)
       \o (IF frac = 0 THEN "" ELSE "." \o Pad2(frac) \o "0000")
       \o (IF d.aware
           THEN (IF d.off < 0 THEN "-" ELSE "+") \o Pad2(a \div 60) \o ":" \o Pad2(a % 60)
           ELSE "")

RECURSIVE PyRepr(_)
PyRepr(v) ==
    LET RECURSIVE Items(_)
        Items(xs) ==
            IF xs = <<>> THEN ""
            ELSE PyRepr(xs[1]) \o (IF Len(xs) > 1 THEN ", " ELSE "") \o Items(Tail(xs))
        RECURSIVE Pairs(_)
        Pairs(ps) ==
            IF ps = <<>> THEN ""
            ELSE ReprStr(ps[1][1]) \o ": " \o PyRepr(ps[1][2])
                 \o (IF Len(ps) > 1 THEN ", " ELSE "") \o Pairs(Tail(ps))
    IN CASE v.t = "null" -> "None"
         [] v.t = "bool" -> (IF v.b THEN "True" ELSE "False")
         [] v.t = "num"  -> ToString(v.n)
         [] v.t = "str"  -> ReprStr(v.s)
         [] v.t = "list" -> "[" \o Items(v.items) \o "]"
         [] v.t = "obj"  -> "{" \o Pairs(v.pairs) \o "}"
         [] v.t = "dt"   -> "datetime(" \o DateTimeStr(v) \o ")"

\* str(v)
PyStr(v) ==
    CASE v.t = "str" -> v.s
      [] v.t = "dt"  -> DateTimeStr(v)
      [] OTHER       -> PyRepr(v)

\* json.dumps(v, ensure_ascii=False), for what json.loads yields
JsonStr(s) == "\"" \o Replace(Replace(s, "\\", "\\\\"), "\"", "\\\"") \o "\""

RECURSIVE JsonDumps(_)
JsonDumps(v) ==
    LET RECURSIVE Items(_)
        Items(xs) ==
            IF xs = <<>> THEN ""
            ELSE JsonDumps(xs[1]) \o (IF Len(xs) > 1 THEN ", " ELSE "") \o Items(Tail(xs))
        RECURSIVE Pairs(_)
        Pairs(ps) ==
            IF ps = <<>> THEN ""
            ELSE JsonStr(ps[1][1]) \o ": " \o JsonDumps(ps[1][2])
                 \o (IF Len(ps) > 1 THEN ", " ELSE "") \o Pairs(Tail(ps))
    IN CASE v.t = "null" -> "null"
         [] v.t = "bool" -> (IF v.b THEN "true" ELSE "false")
         [] v.t = "num"  -> ToString(v.n)
         [] v.t = "str"  -> JsonStr(v.s)
         [] v.t = "list" -> "[" \o Items(v.items) \o "]"
         [] v.t = "obj"  -> "{" \o Pairs(v.pairs) \o "}"

(***************************************************************************)
(* Library conversions the normaliser calls.                               *)
(***************************************************************************)
\* s.split(c)
RECURSIVE Split(_, _)
Split(s, c) ==
    LET i == Find(s, c)
    IN IF i = 0 THEN <<s>> ELSE <<SubSeq(s, 1, i - 1)>> \o Split(Rest(s, i + 1), c)

\* "hh:mm" or "hh:mm:ss" fields: two digits each
TwoDigits(s) == Len(s) = 2 /\ AllDigits(s)

\* datetime.fromisoformat (Python 3.11), on strings of the day 2025-01-01 with at
\* most two fraction digits: [date][T| ][hh:mm:ss][.f[f]][(+|-)hh:mm]. Every other
\* string is taken not to parse.
fromisoformat(s) ==
    LET day  == "2025-01-01"
        rest == Rest(s, Len(day) + 1)
        time == SubSeq(rest, 2, 9)
        tail == Rest(rest, 10)
        hasFrac == tail # "" /\ CharAt(tail, 1) = "."
        fracLen == IF ~hasFrac THEN 0
                   ELSE IF Len(tail) >= 3 /\ IsDigit(CharAt(tail, 3)) THEN 2
                   ELSE 1
        frac == SubSeq(tail, 2, 1 + fracLen)
        tz   == IF hasFrac THEN Rest(tail, 2 + fracLen) ELSE tail
        timeOk ==
            /\ Len(time) = 8
            /\ TwoDigits(SubSeq(time, 1, 2)) /\ CharAt(time, 3) = ":"
            /\ TwoDigits(SubSeq(time, 4, 5)) /\ CharAt(time, 6) = ":"
            /\ TwoDigits(SubSeq(time, 7, 8))
            /\ ToInt(SubSeq(time, 1, 2)) < 24
            /\ ToInt(SubSeq(time, 4, 5)) < 60
            /\ ToInt(SubSeq(time, 7, 8)) < 60
        fracOk == ~hasFrac \/ AllDigits(frac)
        tzOk ==
            \/ tz = ""
            \/ /\ Len(tz) = 6
               /\ CharAt(tz, 1) \in {"+", "-"}
               /\ TwoDigits(SubSeq(tz, 2, 3)) /\ CharAt(tz, 4) = ":"
               /\ TwoDigits(SubSeq(tz, 5, 6))
               /\ ToInt(SubSeq(tz, 2, 3)) < 24
               /\ ToInt(SubSeq(tz, 5, 6)) < 60
        cs == ((ToInt(SubSeq(time, 1, 2)) * 60 + ToInt(SubSeq(time, 4, 5))) * 60
                 + ToInt(SubSeq(time, 7, 8))) * 100
              + (IF ~hasFrac THEN 0
                 ELSE IF fracLen = 1 THEN 10 * ToInt(frac) ELSE ToInt(frac))
        off == (IF CharAt(tz, 1) = "-" THEN -1 ELSE 1)
               * (ToInt(SubSeq(tz, 2, 3)) * 60 + ToInt(SubSeq(tz, 5, 6)))
    IN IF ~StartsWith(s, day) THEN None
       ELSE IF rest = "" THEN [t |-> "dt", aware |-> FALSE, cs |-> 0, off |-> 0]
       ELSE IF CharAt(rest, 1) \notin {"T", " "} THEN None
       ELSE IF ~(timeOk /\ fracOk /\ tzOk) THEN None
       ELSE IF tz = "" THEN [t |-> "dt", aware |-> FALSE, cs |-> cs, off |-> 0]
       ELSE [t |-> "dt", aware |-> TRUE, cs |-> cs, off |-> off]

\* ts.replace("Z", "+00:00")
ReplaceZ(s) == Replace(s, "Z", "+00:00")

\* a value that is not a str has no endswith: the AttributeError is caught
_parse_ecs_timestamp(ts) ==
    IF ts.t # "str" THEN None
    ELSE IF EndsWith(ts.s, "Z") THEN fromisoformat(ReplaceZ(ts.s))
    ELSE fromisoformat(ts.s)

\* ipaddress.IPv4Address(str): four decimal octets, no leading zeros
IsIPv4(s) ==
    LET parts == Split(s, ".")
    IN /\ Len(parts) = 4
       /\ \A i \in 1..4 :
            /\ AllDigits(parts[i])
            /\ Len(parts[i]) <= 3
            /\ (Len(parts[i]) > 1 => CharAt(parts[i], 1) # "0")
            /\ ToInt(parts[i]) <= 255

IsHexDigit(c) == IsDigit(c) \/ c \in {"a", "b", "c", "d", "e", "f", "A", "B", "C", "D", "E", "F"}

\* ipaddress.IPv6Address(str), without an embedded IPv4 tail or a %scope
IsIPv6(s) ==
    LET parts == Split(s, ":")
        n     == Len(parts)
        gaps  == {i \in 2..(n - 1) : parts[i] = ""}
        hextetsOk ==
            \A i \in 1..n :
                parts[i] # "" =>
                    /\ Len(parts[i]) <= 4
                    /\ \A j \in 1..Len(parts[i]) : IsHexDigit(CharAt(parts[i], j))
    IN /\ s # ""
       /\ n >= 3
       /\ n <= 9
       /\ Cardinality(gaps) <= 1
       /\ IF gaps # {}
          THEN LET k  == CHOOSE i \in gaps : TRUE
                   hi == IF parts[1] = "" THEN k - 2 ELSE k - 1
                   lo == IF parts[n] = "" THEN n - k - 1 ELSE n - k
               IN /\ (parts[1] = "" => hi = 0)
                  /\ (parts[n] = "" => lo = 0)
                  /\ 8 - (hi + lo) >= 1
          ELSE n = 8 /\ parts[1] # "" /\ parts[n] # ""
       /\ hextetsOk

\* ipaddress.ip_address(v) raises for everything but an address; an int is one
_is_valid_ip(v) ==
    CASE v.t = "str"  -> IsIPv4(v.s) \/ IsIPv6(v.s)
      [] v.t = "num"  -> v.n >= 0
      [] v.t = "bool" -> TRUE
      [] OTHER        -> FALSE

\* the assignments items[new_key] = v that flatten_dict(d, parent_key) makes, in order
RECURSIVE FlatAssignments(_, _)
FlatAssignments(d, parent_key) ==
    LET new_key(i) == IF parent_key # "" THEN parent_key \o "." \o d[i][1] ELSE d[i][1]
        RECURSIVE From(_)
        From(i) ==
            IF i > Len(d) THEN <<>>
            ELSE (IF d[i][2].t = "obj"
                  THEN FlatAssignments(d[i][2].pairs, new_key(i))
                  ELSE << <<new_key(i), d[i][2]>> >>) \o From(i + 1)
    IN From(1)

\* the dict a sequence of assignments builds: a key stays where it was first set and
\* holds what was set last
DictOf(assignments) ==
    LET n == Len(assignments)
        first(i) == \A j \in 1..(i - 1) : assignments[j][1] # assignments[i][1]
        last(k)  == CHOOSE j \in 1..n :
                        /\ assignments[j][1] = k
                        /\ \A m \in (j + 1)..n : assignments[m][1] # k
        firsts == SelectSeq([i \in 1..n |-> i], first)
    IN [x \in 1..Len(firsts) |->
            <<assignments[firsts[x]][1], assignments[last(assignments[firsts[x]][1])][2]>>]

flatten_dict(d, parent_key) == DictOf(FlatAssignments(d, parent_key))

\* " ".join(strs), half by half
RECURSIVE JoinStrings(_)
JoinStrings(strs) ==
    IF strs = <<>> THEN ""
    ELSE IF Len(strs) = 1 THEN strs[1]
    ELSE JoinStrings(SubSeq(strs, 1, Len(strs) \div 2)) \o " "
         \o JoinStrings(SubSeq(strs, Len(strs) \div 2 + 1, Len(strs)))

\* " ".join(str(x) for x in flat.values() if x is not None)
JoinValues(flat) ==
    LET kept == SelectSeq(flat, LAMBDA kv : kv[2] # None)
    IN JoinStrings([i \in 1..Len(kept) |-> PyStr(kept[i][2])])

(***************************************************************************)
(* normalize_ecs_row: the result is [exc, ev, warnings]; exc names the     *)
(* exception the call raises, "none" when it returns (ev, warnings).       *)
(***************************************************************************)
ECS_MIN_FIELDS == <<"@timestamp", "event.category">>

ParseErrorRow(obj, line_no, msg) ==
    [exc |-> "none",
     ev |-> << <<"id", JNum(line_no)>>,
               <<"raw", JStr(JsonDumps(obj))>>,
               <<"parse_error", JStr(msg)>> >>,
     warnings |-> <<>>]

Raised(e) == [exc |-> e, ev |-> <<>>, warnings |-> <<>>]

\* d.get(k, {}).get(name): needs d.get(k, {}) to be a dict
SubRaises(obj, k) == DictGet(obj.pairs, k, JObj(<<>>)).t # "obj"

SubGet(obj, k, name) == DictGet(DictGet(obj.pairs, k, JObj(<<>>)).pairs, name, None)

\* lines 107-154: obj is a dict holding "@timestamp" and "event", "category" in obj["event"]
BuildEvent(obj, line_no) ==
    LET ts_raw == DictGet(obj.pairs, "@timestamp", None)
        ts_dt  == _parse_ecs_timestamp(ts_raw)
        src0   == SubGet(obj, "source", "ip")
        dst0   == SubGet(obj, "destination", "ip")
        srcBad == Truthy(src0) /\ ~_is_valid_ip(src0)
        dstBad == Truthy(dst0) /\ ~_is_valid_ip(dst0)
        src_ip == IF srcBad THEN None ELSE src0
        dst_ip == IF dstBad THEN None ELSE dst0
        warnings ==
            (IF srcBad THEN <<"line " \o ToString(line_no) \o ": invalid source.ip">> ELSE <<>>)
            \o (IF dstBad THEN <<"line " \o ToString(line_no) \o ": invalid destination.ip">> ELSE <<>>)
        flat == flatten_dict(obj.pairs, "")
        sev  == SubGet(obj, "event", "severity")
        proc == DictGet(obj.pairs, "process", None)
        procGet(name) == IF proc.t = "obj" THEN DictGet(proc.pairs, name, None) ELSE None
        ev0 == << <<"id", JNum(line_no)>>,
                  <<"raw", JStr(JsonDumps(obj))>>,
                  <<"timestamp", ts_raw>>,
                  <<"timestamp_dt", ts_dt>>,
                  <<"message", DictGet(obj.pairs, "message", JStr(""))>>,
                  <<"event.category", SubGet(obj, "event", "category")>>,
                  <<"event.action", SubGet(obj, "event", "action")>>,
                  <<"source.ip", src_ip>>,
                  <<"destination.ip", dst_ip>>,
                  <<"severity", IF Truthy(sev) THEN sev ELSE SubGet(obj, "log", "level")>>,
                  <<"outcome", SubGet(obj, "event", "outcome")>>,
                  <<"user.name", SubGet(obj, "user", "name")>>,
                  <<"host.name", SubGet(obj, "host", "name")>>,
                  <<"process.name", procGet("name")>>,
                  <<"process.pid", procGet("pid")>>,
                  <<"process.command_line", procGet("command_line")>>,
                  <<"structured", obj>> >>
        \* ev.setdefault(k, v) for every k, v of flat, whose keys are distinct
        Fill(ev, ps) == ev \o SelectSeq(ps, LAMBDA kv : ~HasKey(ev, kv[1]))
    IN IF ts_dt = None THEN ParseErrorRow(obj, line_no, "invalid @timestamp")
       ELSE IF SubRaises(obj, "source") \/ SubRaises(obj, "destination")
            THEN Raised("AttributeError")
       ELSE IF SubRaises(obj, "event") THEN Raised("AttributeError")
       ELSE IF ~Truthy(sev) /\ SubRaises(obj, "log") THEN Raised("AttributeError")
       ELSE IF SubRaises(obj, "user") \/ SubRaises(obj, "host") THEN Raised("AttributeError")
       ELSE [exc |-> "none",
             ev |-> DictSet(Fill(ev0, flat), "_all_concat", JStr(JoinValues(flat))),
             warnings |-> warnings]

normalize_ecs_row(obj, line_no) ==
    IF InRaises(obj) THEN Raised("TypeError")
    ELSE IF ~In(ECS_MIN_FIELDS[1], obj)
         THEN ParseErrorRow(obj, line_no, "missing required field: " \o ECS_MIN_FIELDS[1])
    ELSE IF ~In("event", obj)
         THEN ParseErrorRow(obj, line_no, "missing required field: event.category")
    ELSE IF obj.t # "obj" THEN Raised("TypeError")
    ELSE IF InRaises(DictGet(obj.pairs, "event", None)) THEN Raised("TypeError")
    ELSE IF ~In("category", DictGet(obj.pairs, "event", None))
         THEN ParseErrorRow(obj, line_no, "missing required field: event.category")
    ELSE BuildEvent(obj, line_no)

(***************************************************************************)
(* kql_parser.py                                                           *)
(***************************************************************************)
IsFieldChar(c) == IsWordChar(c) \/ c = "." \/ c = "-"

\* the last index of the run of [\w\.-] characters that starts at p (p - 1 when
\* q[p] is not one)
FieldRunEnd(q, p) ==
    LET stops == {j \in p..Len(q) : ~IsFieldChar(CharAt(q, j))}
    IN IF stops = {} THEN Len(q) ELSE (CHOOSE j \in stops : \A k \in stops : j <= k) - 1

\* the last index of the run of \S characters that starts at p
NonSpaceRunEnd(q, p) ==
    LET stops == {j \in p..Len(q) : IsSpace(CharAt(q, j))}
    IN IF stops = {} THEN Len(q) ELSE (CHOOSE j \in stops : \A k \in stops : j <= k) - 1

\* where a match of [\w\.-]+:"[^"]*" that starts at p ends, 0 when there is none
QuotedEnd(q, p) ==
    LET w == FieldRunEnd(q, p)
    IN IF w >= p /\ w + 2 <= Len(q) /\ SubSeq(q, w + 1, w + 2) = ":\""
       THEN FindFrom(q, "\"", w + 3)
       ELSE 0

\* re.finditer(r'([\w\.-]+:"[^"]*")|(\S+)', query): the matches from position p on
RECURSIVE TokensFrom(_, _)
TokensFrom(q, p) ==
    IF p > Len(q) THEN <<>>
    ELSE IF IsSpace(CharAt(q, p)) THEN TokensFrom(q, p + 1)
    ELSE LET e == IF QuotedEnd(q, p) > 0 THEN QuotedEnd(q, p) ELSE NonSpaceRunEnd(q, p)
         IN <<SubSeq(q, p, e)>> \o TokensFrom(q, e + 1)

tokenize_kql(q) == TokensFrom(q, 1)

\* the condition a token that is not an operator stands for (lines 47-55)
TokenCondition(token) ==
    LET i     == Find(token, ":")
        field == Strip(SubSeq(token, 1, i - 1))
        val   == Strip(Rest(token, i + 1))
    IN IF i = 0 THEN <<"_all", token>>
       ELSE IF StartsWith(val, "\"") /\ EndsWith(val, "\"")
            THEN <<field, SubSeq(val, 2, Len(val) - 1)>>
       ELSE <<field, val>>

IsOperator(token) == Lower(token) \in {"and", "or"}

\* the loop at lines 41-55
ParsedConditions(toks) ==
    LET RECURSIVE Go(_)
        Go(i) ==
            IF i > Len(toks) THEN <<>>
            ELSE (IF IsOperator(toks[i]) THEN <<>> ELSE <<TokenCondition(toks[i])>>) \o Go(i + 1)
    IN Go(1)

ParsedOperators(toks) ==
    LET RECURSIVE Go(_)
        Go(i) ==
            IF i > Len(toks) THEN <<>>
            ELSE (IF IsOperator(toks[i]) THEN <<Lower(toks[i])>> ELSE <<>>) \o Go(i + 1)
    IN Go(1)

\* parse_kql_conditions without the repair at lines 57-58
parse_kql_conditions_NoRepair(toks) ==
    [conditions |-> ParsedConditions(toks), operators |-> ParsedOperators(toks)]

parse_kql_conditions(toks) ==
    LET conds == ParsedConditions(toks)
        ops   == ParsedOperators(toks)
        want  == IF Len(conds) - 1 > 0 THEN Len(conds) - 1 ELSE 0
    IN [conditions |-> conds,
        operators  |-> IF Len(ops) # want THEN [i \in 1..want |-> "and"] ELSE ops]

\* the _all branch testing the full-text buffer alone
MatchesAll_BufferOnly(event, value) ==
    /\ DictGet(event, "_all_concat", None) # None
    /\ Contains(Lower(PyStr(DictGet(event, "_all_concat", None))), value)

\* lines 74-90: the _all branch
MatchesAll(event, value) ==
    LET sd == DictGet(event, "structured", None)
    IN \/ \E i \in 1..Len(event) :
            /\ event[i][1] # "structured"
            /\ event[i][2] # None
            /\ Contains(Lower(PyStr(event[i][2])), value)
       \/ /\ Truthy(sd)
          /\ \E i \in 1..Len(sd.pairs) :
                /\ sd.pairs[i][2] # None
                /\ Contains(Lower(PyStr(sd.pairs[i][2])), value)

\* lines 92-101: the value a field condition is tested on, None when nothing resolves
ResolveField(event, field) ==
    LET v1 == DictGet(event, field, None)
        v2 == IF v1 = None /\ Contains(field, ".")
              THEN DictGet(event, Replace(field, ".", "_"), None)
              ELSE v1
        sd == DictGet(event, "structured", None)
    IN IF v2 = None /\ Truthy(sd) /\ HasKey(sd.pairs, field)
       THEN DictGet(sd.pairs, field, None)
       ELSE v2

event_matches_condition(event, cond) ==
    LET field == cond[1]
        value == Lower(cond[2])
    IN IF field = "_all" THEN MatchesAll(event, value)
       ELSE /\ ResolveField(event, field) # None
            /\ Contains(Lower(PyStr(ResolveField(event, field))), value)

\* the fold at lines 141-147 done from the right: the first k conditions as
\* c1 op1 (c2 op2 (... ck))
RECURSIVE FoldFrom(_, _, _, _, _)
FoldFrom(ev, conds, ops, j, k) ==
    IF j >= k THEN event_matches_condition(ev, conds[k])
    ELSE IF j > Len(ops) THEN FoldFrom(ev, conds, ops, j + 1, k)
    ELSE IF ops[j] = "and"
         THEN event_matches_condition(ev, conds[j]) /\ FoldFrom(ev, conds, ops, j + 1, k)
    ELSE event_matches_condition(ev, conds[j]) \/ FoldFrom(ev, conds, ops, j + 1, k)

FoldResult_RightFold(ev, conds, ops, k) == FoldFrom(ev, conds, ops, 1, k)

\* lines 141-147: result after folding in the conditions 2..k
RECURSIVE FoldResult(_, _, _, _)
FoldResult(ev, conds, ops, k) ==
    IF k = 1 THEN event_matches_condition(ev, conds[1])
    ELSE IF k - 1 > Len(ops) THEN FoldResult(ev, conds, ops, k - 1)
    ELSE IF ops[k - 1] = "and"
         THEN FoldResult(ev, conds, ops, k - 1) /\ event_matches_condition(ev, conds[k])
    ELSE FoldResult(ev, conds, ops, k - 1) \/ event_matches_condition(ev, conds[k])

\* filter_events_by_kql returning nothing, not the input, when there is no condition
filter_events_by_kql_NothingWithoutConditions(evs, q) ==
    LET stripped == Strip(q)
        toks     == tokenize_kql(stripped)
        parsed   == parse_kql_conditions(toks)
        early(ts, cs, os) == [tokens |-> ts, conditions |-> cs, operators |-> os, result |-> <<>>]
    IN IF stripped = "" THEN early(<<>>, <<>>, <<>>)
       ELSE IF toks = <<>> THEN early(toks, <<>>, <<>>)
       ELSE IF parsed.conditions = <<>> THEN early(toks, parsed.conditions, parsed.operators)
       ELSE [tokens |-> toks,
             conditions |-> parsed.conditions,
             operators |-> parsed.operators,
             result |-> SelectSeq(evs, LAMBDA ev :
                            FoldResult(ev, parsed.conditions, parsed.operators,
                                       Len(parsed.conditions)))]

\* filter_events_by_kql: its locals and the list it returns
filter_events_by_kql(evs, q) ==
    LET stripped == Strip(q)
        toks     == tokenize_kql(stripped)
        parsed   == parse_kql_conditions(toks)
        early(ts, cs, os) == [tokens |-> ts, conditions |-> cs, operators |-> os, result |-> evs]
    IN IF stripped = "" THEN early(<<>>, <<>>, <<>>)
       ELSE IF toks = <<>> THEN early(toks, <<>>, <<>>)
       ELSE IF parsed.conditions = <<>> THEN early(toks, parsed.conditions, parsed.operators)
       ELSE [tokens |-> toks,
             conditions |-> parsed.conditions,
             operators |-> parsed.operators,
             result |-> SelectSeq(evs, LAMBDA ev :
                            FoldResult(ev, parsed.conditions, parsed.operators,
                                       Len(parsed.conditions)))]

(***************************************************************************)
(* analyzer.py and rules.py                                                *)
(***************************************************************************)
RULES ==
    << [id |-> "BRUTE_FORCE_LOGIN", keyword |-> "failed login", severity |-> "high"],
       [id |-> "PORT_SCAN", keyword |-> "port scan", severity |-> "medium"],
       [id |-> "PRIV_ESC", keyword |-> "privilege escalation", severity |-> "high"],
       [id |-> "SUSPICIOUS_PROCESS", keyword |-> "suspicious process", severity |-> "medium"],
       [id |-> "CREDENTIAL_COMPROMISE", keyword |-> "credential compromise", severity |-> "high"] >>

\* pd.DataFrame(events): one row per event, in order; row i has index i - 1
events_to_df(evs) == evs

\* the rules whose keyword occurs in the lower-cased message, in table order
MatchingRules(lower_msg) ==
    SelectSeq(RULES, LAMBDA rule : Contains(lower_msg, Lower(rule.keyword)))

\* the hit of one row without the break at line 36: the last matching rule
RowHits_LastMatch(row, idx) ==
    LET msg == PyStr(DictGet(row, "message", JStr("nan")))
        matching == MatchingRules(Lower(msg))
    IN IF matching = <<>> THEN <<>>
       ELSE << [row_index |-> idx,
                rule_id |-> matching[Len(matching)].id,
                severity |-> matching[Len(matching)].severity,
                matched_keyword |-> matching[Len(matching)].keyword,
                message |-> msg,
                event_category |-> DictGet(row, "event.category", None),
                timestamp |-> DictGet(row, "timestamp", None)] >>

\* the hit of one row: the first matching rule (the break at line 36), if any
RowHits(row, idx) ==
    LET msg == PyStr(DictGet(row, "message", JStr("nan")))
        matching == MatchingRules(Lower(msg))
    IN IF matching = <<>> THEN <<>>
       ELSE << [row_index |-> idx,
                rule_id |-> matching[1].id,
                severity |-> matching[1].severity,
                matched_keyword |-> matching[1].keyword,
                message |-> msg,
                event_category |-> DictGet(row, "event.category", None),
                timestamp |-> DictGet(row, "timestamp", None)] >>

\* detect_rule_warnings numbering the rows from 1
detect_rule_warnings_OneBased(df) ==
    LET RECURSIVE Rows(_)
        Rows(i) == IF i > Len(df) THEN <<>> ELSE RowHits(df[i], i) \o Rows(i + 1)
    IN IF df = <<>> \/ ~(\E i \in 1..Len(df) : HasKey(df[i], "message")) THEN <<>>
       ELSE Rows(1)

detect_rule_warnings(df) ==
    LET RECURSIVE Rows(_)
        Rows(i) == IF i > Len(df) THEN <<>> ELSE RowHits(df[i], i - 1) \o Rows(i + 1)
    IN IF df = <<>> \/ ~(\E i \in 1..Len(df) : HasKey(df[i], "message")) THEN <<>>
       ELSE Rows(1)

analyze_events_with_rules(evs) ==
    LET warnings == detect_rule_warnings(events_to_df(evs))
    IN [warnings |-> warnings, has_warning |-> Len(warnings) > 0]

(***************************************************************************)
(* build_histogram. Instants are integers, in hundredths of a second.      *)
(***************************************************************************)
num_buckets == 25

\* what datetime comparison and subtraction use: UTC for an aware value, the wall
\* clock for a naive one
Instant(d) == IF d.aware THEN d.cs - d.off * 6000 ELSE d.cs

\* ts_list: the parsed timestamps of the events, in event order
TsList(evs) ==
    LET RECURSIVE Take(_)
        Take(i) ==
            IF i > Len(evs) THEN <<>>
            ELSE LET d == DictGet(evs[i], "timestamp_dt", None)
                 IN (IF d = None THEN <<>> ELSE <<d>>) \o Take(i + 1)
    IN Take(1)

\* ts_list.sort() and max_ts - min_ts raise TypeError when aware and naive values meet
SortRaises(ts_list) ==
    \E i, j \in 1..Len(ts_list) : ts_list[i].aware /\ ~ts_list[j].aware

SeqMin(xs) == CHOOSE x \in {xs[i] : i \in 1..Len(xs)} : \A j \in 1..Len(xs) : x <= xs[j]

SeqMax(xs) == CHOOSE x \in {xs[i] : i \in 1..Len(xs)} : \A j \in 1..Len(xs) : x >= xs[j]

\* total_seconds, floored to one second (lines 201-203)
TotalSpan(instants) ==
    IF SeqMax(instants) - SeqMin(instants) <= 0 THEN 100
    ELSE SeqMax(instants) - SeqMin(instants)

\* int(delta // interval_sec) with interval_sec = total_seconds / 25, clamped (lines
\* 211-214). The code divides floats: off a bucket boundary the quotient's floor is
\* that of the exact quotient; on a boundary the rounding of total_seconds / 25
\* decides between the bucket that starts there and the one before it.
OnBoundary(delta, total) == delta > 0 /\ (num_buckets * delta) % total = 0

BucketIndex(delta, total, roundsDown) ==
    LET q   == (num_buckets * delta) \div total
        idx == IF OnBoundary(delta, total) /\ roundsDown THEN q - 1 ELSE q
    IN IF idx >= num_buckets THEN num_buckets - 1 ELSE idx

\* the results build_histogram can return for a list it does not raise on: one per
\* resolution of the boundary roundings
HistogramResults(ts_list) ==
    LET instants == [i \in 1..Len(ts_list) |-> Instant(ts_list[i])]
        min_ts == SeqMin(instants)
        total  == TotalSpan(instants)
        deltas == {instants[i] - min_ts : i \in 1..Len(instants)}
        boundary == {d \in deltas : OnBoundary(d, total)}
        assigns == {[d \in deltas |-> BucketIndex(d, total, d \in down)] :
                        down \in SUBSET boundary}
        counts(f) == [b \in 1..num_buckets |->
                        Cardinality({i \in 1..Len(instants) : f[instants[i] - min_ts] = b - 1})]
        max_count(c) == SeqMax(c)
        step(c) == IF (max_count(c) + 4) \div 5 < 1 THEN 1 ELSE (max_count(c) + 4) \div 5
        ticks(c) ==
            LET base == [k \in 1..((max_count(c) \div step(c)) + 1) |-> (k - 1) * step(c)]
            IN IF base[Len(base)] # max_count(c) THEN Append(base, max_count(c)) ELSE base
    IN {[buckets |-> counts(f), y_ticks |-> ticks(counts(f)),
         x_start |-> min_ts, x_end |-> SeqMax(instants)] : f \in assigns}

EmptyHistogram == [buckets |-> <<>>, y_ticks |-> <<>>, x_start |-> -1, x_end |-> -1]

(***************************************************************************)
(* The input lines. A line is blank, or text json.loads rejects, or text   *)
(* json.loads turns into the value doc.                                    *)
(***************************************************************************)
BlankLine == [kind |-> "blank", doc |-> None]

GarbageLine == [kind |-> "garbage", doc |-> None]

JsonLine(doc) == [kind |-> "json", doc |-> doc]

Ts(s) == <<"@timestamp", JStr(s)>>

Category(v) == <<"event", JObj(<< <<"category", v>> >>)>>

Message(s) == <<"message", JStr(s)>>

ScenarioLine1 ==
    JsonLine(JObj(<< Ts("2025-01-01T00:00:00.00Z"),
                     Category(JList(<<JStr("authentication")>>)),
                     Message("user login failed login") >>))

ScenarioLine2 ==
    JsonLine(JObj(<< Ts("2025-01-01T00:00:01.00Z"), Message("no category here") >>))

GoodLines ==
    { ScenarioLine1,
      JsonLine(JObj(<< Ts("2025-01-01T00:00:05"), Category(JStr("process")),
                       Message("Suspicious Process after a PORT SCAN") >>)),
      JsonLine(JObj(<< Ts("2025-01-01T01:00:10+01:00"), Category(JStr("network")),
                       <<"source", JObj(<< <<"ip", JStr("999.1.1.1")>> >>)>>,
                       <<"destination", JObj(<< <<"ip", JStr("10.0.0.7")>> >>)>>,
                       Message("port scan") >>)),
      JsonLine(JObj(<< Ts("2025-01-01T00:00:02Z"), Category(None),
                       Message("credential compromise, then privilege escalation") >>)),
      JsonLine(JObj(<< Ts("2025-01-01T00:00:03Z"), Category(JStr("web")),
                       <<"message", JList(<<JStr("Failed Login")>>)>> >>)),
      JsonLine(JObj(<< Ts("2025-01-01T00:00:25Z"), Category(JStr("web")) >>)),
      JsonLine(JObj(<< Ts("2025-01-01T00:00:06Z"), Category(JStr("network")),
                       <<"source", JObj(<< <<"ip", JStr("")>> >>)>>,
                       <<"destination", JObj(<< <<"ip", JStr("::1")>> >>)>> >>)) }

\* documents with both required fields and a parseable timestamp, and something else
OddLines ==
    { JsonLine(JObj(<< Ts("2025-01-01T00:00:04Z"), Category(JStr("web")),
                       <<"parse_error", JStr("x")>> >>)),
      JsonLine(JObj(<< Ts("2025-01-01T00:00:04Z"), Category(JStr("web")),
                       <<"user", JStr("bob")>> >>)),
      JsonLine(JObj(<< Ts("2025-01-01T00:00:04Z"), Category(JStr("web")),
                       <<"source", None>> >>)) }

BadLines ==
    { ScenarioLine2,
      JsonLine(JObj(<< Ts("2025-01-01T00:00:04Z"), <<"event", None>> >>)),
      JsonLine(JObj(<< Ts("2025-01-01T00:00:04Z"), <<"event", JStr("category")>> >>)),
      JsonLine(JObj(<< Ts("yesterday"), Category(JStr("web")) >>)),
      JsonLine(JObj(<< Category(JStr("web")) >>)),
      JsonLine(JNum(5)),
      JsonLine(JStr("abc")),
      JsonLine(JList(<<JStr("@timestamp")>>)) }

Lines == {BlankLine, GarbageLine} \cup GoodLines \cup OddLines \cup BadLines

(***************************************************************************)
(* parse_ndjson_file, one loop iteration per step, then detection and the  *)
(* histogram over the events it returned.                                  *)
(***************************************************************************)
NoQuery == <<query, tokens, conditions, operators, visible>>

\* no file: request.files.get("logfile") is None
NoFile == [filename |-> "", lines |-> <<>>]

Stored == <<ALL_EVENTS, LAST_FILENAME, uploaded>>

Init ==
    /\ stream = <<>>
    /\ events = <<>>
    /\ errors = <<>>
    /\ warns = <<>>
    /\ pc = "ingest"
    /\ exc = "none"
    /\ query = ""
    /\ tokens = <<>>
    /\ conditions = <<>>
    /\ operators = <<>>
    /\ visible = <<>>
    /\ hits = <<>>
    /\ hist = EmptyHistogram
    /\ ALL_EVENTS = <<>>
    /\ LAST_FILENAME = None
    /\ uploaded = NoFile

\* lines 168-174: what the iteration does with r, the outcome of normalize_ecs_row;
\* acc holds events, errors, warns and exc, the exception that ended the loop
\* ("none" if none)
Collect(acc, r, idx) ==
    IF r.exc # "none" THEN [acc EXCEPT !.exc = r.exc]
    ELSE IF Truthy(DictGet(r.ev, "parse_error", None))
    THEN [acc EXCEPT !.errors =
             Append(@, [line |-> idx, error |-> DictGet(r.ev, "parse_error", None)])]
    ELSE [acc EXCEPT !.events = Append(@, r.ev), !.warns = @ \o r.warnings]

\* one iteration of the loop at lines 158-174, on line number idx
IngestStep(acc, line, idx) ==
    IF line.kind = "blank" THEN acc
    ELSE IF line.kind = "garbage"
    THEN [acc EXCEPT !.errors =
             Append(@, [line |-> idx, error |-> JStr("JSON parse: Expecting value")])]
    ELSE Collect(acc, normalize_ecs_row(line.doc, idx), idx)

\* parse_ndjson_file on a whole stream: what it returns, or the exception it raises
parse_ndjson_file(lines) ==
    LET RECURSIVE Loop(_, _)
        Loop(acc, idx) ==
            IF idx > Len(lines) \/ acc.exc # "none" THEN acc
            ELSE Loop(IngestStep(acc, lines[idx], idx), idx + 1)
    IN Loop([events |-> <<>>, errors |-> <<>>, warns |-> <<>>, exc |-> "none"], 1)

ReadLine(line) ==
    /\ pc = "ingest"
    /\ Len(stream) < MaxLines
    /\ stream' = Append(stream, line)
    /\ \E r \in {IngestStep([events |-> events, errors |-> errors, warns |-> warns,
                             exc |-> "none"], line, Len(stream) + 1)} :
            /\ events' = r.events
            /\ errors' = r.errors
            /\ warns' = r.warns
            /\ exc' = r.exc
            /\ pc' = IF r.exc # "none" THEN "ingest_raised" ELSE pc
    /\ UNCHANGED <<hits, hist>>
    /\ UNCHANGED NoQuery
    /\ UNCHANGED Stored

\* the stream is exhausted: return events, errors, warns (line 175)
Return ==
    /\ pc = "ingest"
    /\ pc' = "loaded"
    /\ UNCHANGED <<stream, events, errors, warns, exc, hits, hist>>
    /\ UNCHANGED NoQuery
    /\ UNCHANGED Stored

\* analyze_events_with_rules(events)
Analyze ==
    /\ pc = "loaded"
    /\ hits' = analyze_events_with_rules(events).warnings
    /\ pc' = "analyzed"
    /\ UNCHANGED <<stream, events, errors, warns, exc, hist>>
    /\ UNCHANGED NoQuery
    /\ UNCHANGED Stored

\* build_histogram(events)
Histogram ==
    /\ pc = "analyzed"
    /\ \E ts_list \in {TsList(events)} :
            IF ts_list = <<>>
            THEN hist' = EmptyHistogram /\ pc' = "done" /\ UNCHANGED exc
            ELSE IF SortRaises(ts_list)
            THEN pc' = "histogram_raised" /\ exc' = "TypeError" /\ UNCHANGED hist
            ELSE hist' \in HistogramResults(ts_list) /\ pc' = "done" /\ UNCHANGED exc
    /\ UNCHANGED <<stream, events, errors, warns, hits>>
    /\ UNCHANGED NoQuery
    /\ UNCHANGED Stored

Next ==
    \/ \E line \in Lines : ReadLine(line)
    \/ Return
    \/ Analyze
    \/ Histogram

Spec == Init /\ [][Next]_vars

(***************************************************************************)
(* filter_events_by_kql over the events of an upload.                      *)
(***************************************************************************)
Flags(a, b, c) == << <<"a", JStr(a)>>, <<"b", JStr(b)>>, <<"c", JStr(c)>> >>

QueryDocs ==
    << JsonLine(JObj(<< Ts("2025-01-01T00:00:00Z"), Category(JStr("network")),
                        <<"source", JObj(<< <<"ip", JStr("999.1.1.1")>> >>)>> >>
                     \o Flags("1", "0", "0"))),
       JsonLine(JObj(<< Ts("2025-01-01T00:00:01Z"), Category(JStr("web")),
                        <<"severity", JStr("high")>> >>
                     \o Flags("0", "1", "0"))),
       JsonLine(JObj(<< Ts("2025-01-01T00:00:02Z"), Category(JStr("web")),
                        <<"a_b", JStr("under")>> >>
                     \o Flags("0", "0", "1"))),
       JsonLine(JObj(<< Ts("2025-01-01T00:00:03Z"), Category(JStr("network")),
                        <<"source.ip", JStr("10.1.1.1")>> >>
                     \o Flags("1", "1", "0"))),
       JsonLine(JObj(<< Ts("2025-01-01T00:00:04Z"),
                        <<"event", JObj(<< <<"category", JList(<<JStr("authentication")>>)>>,
                                           <<"severity", JStr("High")>> >>)>>,
                        Message("Failed LOGIN for root") >>
                     \o Flags("1", "0", "1"))),
       JsonLine(JObj(<< Ts("2025-01-01T00:00:05"), Category(JStr("iam")),
                        <<"user", JObj(<< <<"name", JStr("root")>> >>)>>,
                        <<"x.y", JStr("lost")>>,
                        <<"x", JObj(<< <<"y", JStr("kept")>>, <<"z", None>> >>)>> >>
                     \o Flags("0", "1", "1"))),
       JsonLine(JObj(<< Ts("2025-01-01T00:00:06Z"), Category(JStr("process")),
                        <<"source", JObj(<< <<"ip", JStr("10.1.2.3")>> >>)>>,
                        Message("started process") >>
                     \o Flags("1", "1", "1"))),
       JsonLine(JObj(<< Ts("2025-01-01T00:00:07Z"), Category(JStr("web")),
                        <<"geo", JObj(<< <<"city", JStr("Oslo")>> >>)>> >>
                     \o Flags("0", "0", "0"))) >>

\* queries made of up to MaxQueryTokens tokens, joined by one space
QueryTokens == {"a:1", "b:1", "and", "OR"}

RECURSIVE JoinTokens(_)
JoinTokens(ts) ==
    IF ts = <<>> THEN ""
    ELSE IF Len(ts) = 1 THEN ts[1]
    ELSE ts[1] \o " " \o JoinTokens(Tail(ts))

TokenQueries ==
    {JoinTokens(ts) : ts \in UNION {[1..k -> QueryTokens] : k \in 0..MaxQueryTokens}}

\* single conditions field:value
FieldValuePairs ==
    { <<"source.ip", "999">>, <<"source.ip", "10.1">>, <<"severity", "HIGH">>,
      <<"a.b", "under">>, <<"geo", "oslo">>, <<"message", "failed login">>,
      <<"event.category", "AUTH">>, <<"x.y", "lost">>, <<"x.z", "none">>,
      <<"user.name", "Root">>, <<"nosuch", "1">>, <<"id", "2">> }

FieldQueryStrings(fv) ==
    {fv[1] \o ":\"" \o fv[2] \o "\""}
    \cup (IF Contains(fv[2], " ") THEN {} ELSE {fv[1] \o ":" \o fv[2]})

FieldQueries == UNION {FieldQueryStrings(fv) : fv \in FieldValuePairs}

\* free-text terms
Barewords ==
    {"category", "FAILED", "oslo", "999.1", "lost", "zzz", "00+00", "@timestamp", "['auth",
     "{'city'"}

ThreeTermQueries ==
    { "a:1 or b:1 and c:1", "a:1 and b:1 or c:1", "a:1 or b:1 or c:1",
      "a:1 AND b:1 AND c:1" }

MalformedQueries ==
    { "or a:1 b:1", "a:1 b:1 or", "a:1 and or b:1", "  ", " a:1\tand  b:1 ",
      "event.category:authentication AND message:\"failed login\"",
      "message:\"failed login", "and or and or" }

Queries ==
    TokenQueries \cup FieldQueries \cup Barewords \cup ThreeTermQueries \cup MalformedQueries

\* an upload of up to MaxEvents consecutive documents of QueryDocs has been parsed
InitQuery ==
    /\ \E first \in 1..Len(QueryDocs), n \in 0..MaxEvents :
            /\ first + n - 1 <= Len(QueryDocs)
            /\ stream = SubSeq(QueryDocs, first, first + n - 1)
    /\ \E r \in {parse_ndjson_file(stream)} :
            /\ events = r.events
            /\ errors = r.errors
            /\ warns = r.warns
            /\ exc = r.exc
    /\ pc = "loaded"
    /\ query = ""
    /\ tokens = <<>>
    /\ conditions = <<>>
    /\ operators = <<>>
    /\ visible = <<>>
    /\ hits = <<>>
    /\ hist = EmptyHistogram
    /\ ALL_EVENTS = <<>>
    /\ LAST_FILENAME = None
    /\ uploaded = NoFile

\* filter_events_by_kql(events, q)
Filter(q) ==
    /\ pc = "loaded"
    /\ query' = q
    /\ \E r \in {filter_events_by_kql(events, q)} :
            /\ tokens' = r.tokens
            /\ conditions' = r.conditions
            /\ operators' = r.operators
            /\ visible' = r.result
    /\ pc' = "filtered"
    /\ UNCHANGED <<stream, events, errors, warns, exc, hits, hist>>
    /\ UNCHANGED Stored

NextQuery == \E q \in Queries : Filter(q)

SpecQuery == InitQuery /\ [][NextQuery]_vars

(***************************************************************************)
(* The index route: requests, one after the other, on the module-level     *)
(* ALL_EVENTS and LAST_FILENAME.                                           *)
(***************************************************************************)
FileNames == {"a.ndjson", "b.ndjson"}

NaiveLine ==
    JsonLine(JObj(<< Ts("2025-01-01T00:00:05"), Category(JStr("process")),
                     Message("Suspicious Process after a PORT SCAN") >>))

FileContents ==
    { <<>>,
      <<ScenarioLine1, ScenarioLine2>>,
      <<ScenarioLine1, NaiveLine>>,
      <<ScenarioLine2>>,
      <<ScenarioLine1, JsonLine(JNum(5))>>,
      <<NaiveLine>> }

\* request.files.get("logfile"): no file, or a file with a name (empty when the
\* form was sent without choosing one) and its lines
Uploads ==
    {NoFile} \cup {[filename |-> n, lines |-> c] : n \in FileNames \cup {""}, c \in FileContents}

\* request.values.get("kql")
KqlValues == {"", "  ", "failed", " event.category:process "}

InitIndex ==
    /\ stream = <<>>
    /\ events = <<>>
    /\ errors = <<>>
    /\ warns = <<>>
    /\ pc = "idle"
    /\ exc = "none"
    /\ query = ""
    /\ tokens = <<>>
    /\ conditions = <<>>
    /\ operators = <<>>
    /\ visible = <<>>
    /\ hits = <<>>
    /\ hist = EmptyHistogram
    /\ ALL_EVENTS = <<>>
    /\ LAST_FILENAME = None
    /\ uploaded = NoFile

\* lines 284-298: the visible events, then detection and the histogram over them
Present(f) ==
    /\ tokens' = f.tokens
    /\ conditions' = f.conditions
    /\ operators' = f.operators
    /\ visible' = f.result
    /\ hits' = IF f.result # <<>> THEN analyze_events_with_rules(f.result).warnings ELSE <<>>
    /\ \E ts_list \in {TsList(f.result)} :
            IF ts_list = <<>>
            THEN hist' = EmptyHistogram /\ pc' = "responded" /\ exc' = "none"
            ELSE IF SortRaises(ts_list)
            THEN hist' = EmptyHistogram /\ pc' = "request_raised" /\ exc' = "TypeError"
            ELSE hist' \in HistogramResults(ts_list) /\ pc' = "responded" /\ exc' = "none"

\* one request to index(): lines 256-298. An exception ends the request (the server
\* answers 500) and leaves the module-level names as they are at that point.
Index(method, up, kql) ==
    /\ method = "GET" => up = NoFile
    /\ LET carries == method = "POST" /\ up.filename # ""
       IN /\ uploaded' = IF carries THEN up ELSE uploaded
          /\ stream' = IF carries THEN up.lines ELSE <<>>
          /\ query' = Strip(kql)
          /\ \E p \in {IF carries THEN parse_ndjson_file(up.lines)
                       ELSE [events |-> ALL_EVENTS, errors |-> <<>>, warns |-> <<>>,
                             exc |-> "none"]} :
                IF p.exc # "none"
                THEN /\ pc' = "request_raised"
                     /\ exc' = p.exc
                     /\ events' = ALL_EVENTS
                     /\ errors' = <<>>
                     /\ warns' = <<>>
                     /\ tokens' = <<>>
                     /\ conditions' = <<>>
                     /\ operators' = <<>>
                     /\ visible' = <<>>
                     /\ hits' = <<>>
                     /\ hist' = EmptyHistogram
                     /\ UNCHANGED <<ALL_EVENTS, LAST_FILENAME>>
                ELSE /\ events' = p.events
                     /\ errors' = p.errors
                     /\ warns' = p.warns
                     /\ ALL_EVENTS' = IF carries THEN p.events ELSE ALL_EVENTS
                     /\ LAST_FILENAME' = IF carries THEN JStr(up.filename) ELSE LAST_FILENAME
                     /\ Present(IF p.events # <<>> /\ Strip(kql) # ""
                                THEN filter_events_by_kql(p.events, Strip(kql))
                                ELSE [tokens |-> <<>>, conditions |-> <<>>,
                                      operators |-> <<>>, result |-> p.events])

NextIndex == \E method \in {"GET", "POST"}, up \in Uploads, kql \in KqlValues : Index(method, up, kql)

SpecIndex == InitIndex /\ [][NextIndex]_vars

(***************************************************************************)
(* Ingestion: what each line of the input contributed.                     *)
(***************************************************************************)
\* positions in events of the events whose id is the line number i
EventsOfLine(i) == {k \in 1..Len(events) : DictGet(events[k], "id", None) = JNum(i)}

\* positions in errors of the entries that carry the line number i
ErrorsOfLine(i) == {k \in 1..Len(errors) : errors[k].line = i}

\* a JSON document with a top-level @timestamp whose string parses, and an event.category
Qualifies(line) ==
    /\ line.kind = "json"
    /\ line.doc.t = "obj"
    /\ HasKey(line.doc.pairs, "@timestamp")
    /\ _parse_ecs_timestamp(DictGet(line.doc.pairs, "@timestamp", None)) # None
    /\ DictGet(line.doc.pairs, "event", None).t = "obj"
    /\ HasKey(DictGet(line.doc.pairs, "event", None).pairs, "category")

\* C1: every line read so far that is a JSON document with @timestamp, event.category
\* and a parseable timestamp has produced exactly one event, whose id is the line's
\* 1-based physical line number, and no error entry, whatever else the document holds.
C1_EveryQualifyingLineYieldsItsEvent ==
    \A i \in 1..Len(stream) :
        Qualifies(stream[i]) =>
            /\ Cardinality(EventsOfLine(i)) = 1
            /\ ErrorsOfLine(i) = {}

\* C2: parse_ndjson_file never stops on a line: no line raises, every non-blank line
\* read so far has contributed exactly one of an event or an error entry carrying its
\* number, and a line that is not JSON has contributed no event and one error.
C2_EveryLineIsAbsorbed ==
    /\ pc # "ingest_raised"
    /\ \A i \in 1..Len(stream) :
        /\ stream[i].kind = "blank" => EventsOfLine(i) = {} /\ ErrorsOfLine(i) = {}
        /\ stream[i].kind # "blank" =>
                Cardinality(EventsOfLine(i)) + Cardinality(ErrorsOfLine(i)) = 1
        /\ stream[i].kind = "garbage" =>
                EventsOfLine(i) = {} /\ Cardinality(ErrorsOfLine(i)) = 1

(***************************************************************************)
(* Field conditions.                                                       *)
(***************************************************************************)
\* the value at the path parts inside the JSON value v, None when the path leaves it
RECURSIVE PathGet(_, _)
PathGet(v, parts) ==
    IF parts = <<>> THEN v
    ELSE IF v.t # "obj" THEN None
    ELSE PathGet(DictGet(v.pairs, parts[1], None), Tail(parts))

\* the first non-null value of: the event entry named field, the entry named field
\* with every "." replaced by "_", the value at the dotted path field in the raw document
PathChain(ev, field) ==
    LET v1 == DictGet(ev, field, None)
        v2 == DictGet(ev, Replace(field, ".", "_"), None)
        v3 == PathGet(DictGet(ev, "structured", None), Split(field, "."))
    IN IF v1 # None THEN v1 ELSE IF v2 # None THEN v2 ELSE v3

PathChainSelects(ev, field, value) ==
    /\ PathChain(ev, field) # None
    /\ Contains(Lower(PyStr(PathChain(ev, field))), Lower(value))

\* C3: after filtering by a single condition field:value (quoted or not), the visible
\* events are exactly the events, in input order, for which the first non-null value
\* of the chain entry / entry with "_" for "." / dotted path in the raw document
\* contains value, case-insensitively.
C3_FieldConditionFollowsPathChain ==
    \A fv \in FieldValuePairs : \A q \in FieldQueryStrings(fv) :
        pc = "filtered" /\ query = q =>
            visible = SelectSeq(events, LAMBDA ev : PathChainSelects(ev, fv[1], fv[2]))

(***************************************************************************)
(* Free-text conditions.                                                   *)
(***************************************************************************)
\* value is a case-insensitive substring of the text of v
TextHolds(v, value) == v # None /\ Contains(Lower(PyStr(v)), Lower(value))

\* ... of the event's full-text buffer
InBuffer(ev, value) == TextHolds(DictGet(ev, "_all_concat", None), value)

IsScalar(v) == v.t \in {"bool", "num", "str"}

\* the top-level values of the raw document of ev
RawValues(ev) ==
    LET sd == DictGet(ev, "structured", None)
    IN IF sd.t = "obj" THEN {sd.pairs[i][2] : i \in 1..Len(sd.pairs)} ELSE {}

\* ... of a scalar value of the raw document
InRawScalar(ev, value) == \E v \in RawValues(ev) : IsScalar(v) /\ TextHolds(v, value)

\* ... of an entry of the event other than the raw document
InSomeEntry(ev, value) ==
    \E i \in 1..Len(ev) : ev[i][1] # "structured" /\ TextHolds(ev[i][2], value)

\* ... of a top-level value of the raw document, scalar or container
InRawValue(ev, value) == \E v \in RawValues(ev) : TextHolds(v, value)

\* the claim as written: a bareword selects exactly the events whose full-text buffer
\* or one of whose raw scalar values contains it
C4_OnlyBufferOrRawScalar ==
    \A w \in Barewords :
        pc = "filtered" /\ query = w =>
            visible = SelectSeq(events, LAMBDA ev : InBuffer(ev, w) \/ InRawScalar(ev, w))

\* C4: a bareword selects exactly the events that have a non-null entry other than
\* the raw document (the full-text buffer, but also id, timestamp_dt and raw, the JSON
\* text of the line) or a non-null top-level value of the raw document (scalar or
\* container) whose text contains it, case-insensitively: every event whose buffer
\* or raw scalar holds the word is selected, and the key name category selects all.
C4_BarewordMatchesAnyEntryText ==
    \A w \in Barewords :
        pc = "filtered" /\ query = w =>
            /\ visible = SelectSeq(events, LAMBDA ev : InSomeEntry(ev, w) \/ InRawValue(ev, w))
            /\ \A i \in 1..Len(events) :
                    InBuffer(events[i], w) \/ InRawScalar(events[i], w) =>
                        \E k \in 1..Len(visible) : visible[k] = events[i]
            /\ (w = "category" => visible = events)

\* a key name alone selects an event
C4_Witness ==
    /\ pc = "filtered"
    /\ query = "category"
    /\ visible # <<>>
    /\ \E k \in 1..Len(visible) :
            ~InBuffer(visible[k], "category") /\ ~InRawScalar(visible[k], "category")

(***************************************************************************)
(* Parsing and evaluating a query.                                         *)
(***************************************************************************)
\* the tokens that read and or or, whatever their case
OperatorTokens(toks) == SelectSeq(toks, LAMBDA t : Lower(t) \in {"and", "or"})

\* C5: for the tokens of the query just filtered by, the operator list has length
\* max(0, len(conditions) - 1): the parsed operators in their order when there are
\* len(conditions) - 1 of them, and AND between every two conditions otherwise.
C5_OperatorListRepaired ==
    pc = "filtered" /\ tokens # <<>> =>
        LET parsed == OperatorTokens(tokens)
            nConds == Len(tokens) - Len(parsed)
            want   == IF nConds > 1 THEN nConds - 1 ELSE 0
        IN /\ Len(conditions) = nConds
           /\ Len(operators) = want
           /\ IF Len(parsed) = nConds - 1
              THEN operators = [i \in 1..Len(parsed) |-> Lower(parsed[i])]
              ELSE operators = [i \in 1..want |-> "and"]

\* two operators for two conditions: both are dropped for one AND
C5_Witness ==
    /\ pc = "filtered"
    /\ query = "a:1 and or b:1"
    /\ Len(conditions) = 2
    /\ operators = <<"and">>

\* the left fold of the parsed conditions over ev, unfolded: some condition that
\* starts the query or follows an OR holds, and so does every later one that
\* follows an AND
LeftFoldHolds(ev) ==
    \E j \in 1..Len(conditions) :
        /\ j = 1 \/ operators[j - 1] = "or"
        /\ event_matches_condition(ev, conditions[j])
        /\ \A m \in (j + 1)..Len(conditions) :
                operators[m - 1] = "and" => event_matches_condition(ev, conditions[m])

\* the flag fields of the query documents
Flag(ev, name) == DictGet(ev, name, None) = JStr("1")

\* C6: a query of n conditions and n - 1 operators selects the events its strict
\* left fold holds for; a or b and c selects those with (a or b) and c, a and b or c
\* those with (a and b) or c.
C6_LeftFoldNoPrecedence ==
    pc = "filtered" =>
        /\ conditions # <<>> /\ Len(operators) = Len(conditions) - 1 =>
                visible = SelectSeq(events, LeftFoldHolds)
        /\ query = "a:1 or b:1 and c:1" =>
                visible = SelectSeq(events, LAMBDA ev :
                              (Flag(ev, "a") \/ Flag(ev, "b")) /\ Flag(ev, "c"))
        /\ query = "a:1 and b:1 or c:1" =>
                visible = SelectSeq(events, LAMBDA ev :
                              (Flag(ev, "a") /\ Flag(ev, "b")) \/ Flag(ev, "c"))

\* an event with a and without c is left out by a or b and c
C6_Witness ==
    /\ pc = "filtered"
    /\ query = "a:1 or b:1 and c:1"
    /\ \E i \in 1..Len(events) :
            /\ Flag(events[i], "a")
            /\ ~Flag(events[i], "c")
            /\ \A k \in 1..Len(visible) : visible[k] # events[i]

\* sub is seq with some elements left out
IsSubsequence(sub, seq) ==
    \E f \in [1..Len(sub) -> 1..Len(seq)] :
        /\ \A k \in 1..Len(sub) : seq[f[k]] = sub[k]
        /\ \A k1, k2 \in 1..Len(sub) : k1 < k2 => f[k1] < f[k2]

\* C7: the visible events are a subsequence of the events, in their order, and all
\* of them when the query is blank or has no condition (only and/or tokens).
C7_FilterIsStableAndIdentityWithoutConditions ==
    pc = "filtered" =>
        /\ IsSubsequence(visible, events)
        /\ Strip(query) = "" => visible = events
        /\ OperatorTokens(tokens) = tokens => visible = events

\* a query of operators alone returns the whole non-empty input
C7_Witness ==
    /\ pc = "filtered"
    /\ query = "and or and or"
    /\ events # <<>>
    /\ visible = events

(***************************************************************************)
(* Detection.                                                              *)
(***************************************************************************)
Detected == pc \in {"analyzed", "done", "histogram_raised"}

\* the rule table as the specification lists it
RuleOrder ==
    << <<"BRUTE_FORCE_LOGIN", "failed login">>,
       <<"PORT_SCAN", "port scan">>,
       <<"PRIV_ESC", "privilege escalation">>,
       <<"SUSPICIOUS_PROCESS", "suspicious process">>,
       <<"CREDENTIAL_COMPROMISE", "credential compromise">> >>

\* the places in the table of the rules whose keyword occurs in the event's message
RulesIn(ev) ==
    {r \in 1..Len(RuleOrder) :
        Contains(Lower(PyStr(DictGet(ev, "message", None))), RuleOrder[r][2])}

\* the warnings raised for the i-th event
HitsOfEvent(i) == {k \in 1..Len(hits) : hits[k].row_index = i - 1}

\* C8: after detection every event has at most one warning, and has one exactly when
\* some rule keyword occurs in its message, whatever the case; the warning names the
\* earliest such rule of the table, and the warnings are in event order.
C8_FirstMatchWins ==
    Detected =>
        /\ \A k \in 1..Len(hits) : \E i \in 1..Len(events) : k \in HitsOfEvent(i)
        /\ \A k \in 1..(Len(hits) - 1) : hits[k].row_index < hits[k + 1].row_index
        /\ \A i \in 1..Len(events) :
                /\ Cardinality(HitsOfEvent(i)) <= 1
                /\ HitsOfEvent(i) # {} <=> RulesIn(events[i]) # {}
                /\ \A k \in HitsOfEvent(i) :
                        \E r \in RulesIn(events[i]) :
                            /\ hits[k].rule_id = RuleOrder[r][1]
                            /\ \A later \in RulesIn(events[i]) : r <= later

\* an event whose message holds the keywords of two rules has its one warning
C8_Witness ==
    /\ pc = "analyzed"
    /\ \E i \in 1..Len(events) :
            /\ Cardinality(RulesIn(events[i])) >= 2
            /\ HitsOfEvent(i) # {}

(***************************************************************************)
(* The two-line scenario.                                                  *)
(***************************************************************************)
ScenarioDetected == stream = <<ScenarioLine1, ScenarioLine2>> /\ Detected

\* one event for line 1, one error for line 2, one warning on the given row
ScenarioOutcome(row) ==
    /\ Len(events) = 1
    /\ DictGet(events[1], "id", None) = JNum(1)
    /\ Len(errors) = 1
    /\ errors[1].line = 2
    /\ errors[1].error = JStr("missing required field: event.category")
    /\ Len(hits) = 1
    /\ hits[1].rule_id = "BRUTE_FORCE_LOGIN"
    /\ hits[1].row_index = row

\* C9: the scenario yields one event (line 1), one error (line 2, missing
\* event.category) and one BRUTE_FORCE_LOGIN warning whose row index is 1.
C9_ScenarioWarningOnRowOne == ScenarioDetected => ScenarioOutcome(1)

\* C9, with the row counted from zero: the scenario yields one event (line 1), one error (line 2, missing
\* event.category) and one BRUTE_FORCE_LOGIN warning whose row index is 0, the
\* position of the event among the events counted from zero.
C9_ScenarioWarningOnRowZero == ScenarioDetected => ScenarioOutcome(0)

\* the scenario has been ingested and detection has raised its warning
C9_Witness == ScenarioDetected /\ pc = "analyzed" /\ Len(hits) = 1

(***************************************************************************)
(* The histogram.                                                          *)
(***************************************************************************)
RECURSIVE SumSeq(_)
SumSeq(xs) == IF xs = <<>> THEN 0 ELSE Head(xs) + SumSeq(Tail(xs))

\* the span of the timestamps, one second when they coincide
TotalSpanOf(instants) ==
    IF SeqMax(instants) = SeqMin(instants) THEN 100
    ELSE SeqMax(instants) - SeqMin(instants)

\* floor((ts - minTs) / width) with width = span / 25, clamped to the last bucket
FloorBucket(instant, instants) ==
    LET q == (25 * (instant - SeqMin(instants))) \div TotalSpanOf(instants)
    IN IF q > 24 THEN 24 ELSE q

\* C10: once the histogram of a non-empty set of timestamped events has been asked
\* for, it is there, with exactly 25 buckets; every timestamp is counted in the bucket
\* floor((ts - minTs) / width) clamped to 24, the span being one second when all
\* timestamps coincide; and the counts add up to the number of timestamps.
C10_HistogramCountsEveryTimestamp ==
    pc \in {"done", "histogram_raised"} /\ TsList(events) # <<>> =>
        /\ pc = "done"
        /\ Len(hist.buckets) = 25
        /\ SumSeq(hist.buckets) = Len(TsList(events))
        /\ LET instants == [i \in 1..Len(TsList(events)) |-> Instant(TsList(events)[i])]
           IN \A b \in 1..25 :
                hist.buckets[b] =
                    Cardinality({i \in 1..Len(instants) :
                                    FloorBucket(instants[i], instants) = b - 1})

(***************************************************************************)
(* The addresses of an event.                                              *)
(***************************************************************************)
\* the value at side.ip in the document of a line, None when there is none
IpOfLine(line, side) ==
    LET sub == DictGet(line.doc.pairs, side, None)
    IN IF sub.t = "obj" THEN DictGet(sub.pairs, "ip", None) ELSE None

IsIpLiteral(v) == v.t = "str" /\ (IsIPv4(v.s) \/ IsIPv6(v.s))

\* the warnings about side.ip of line i
IpWarnings(i, side) ==
    {k \in 1..Len(warns) : warns[k] = "line " \o ToString(i) \o ": invalid " \o side \o ".ip"}

\* C11: a qualifying line whose source.ip or destination.ip is there and is not an
\* IPv4 or IPv6 literal yields its event, with that field null and exactly one
\* warning naming the line and the field; a literal is kept without a warning; so
\* the two fields of every event are null or a literal.
C11_AddressesAreValidatedOrNulled ==
    /\ \A i \in 1..Len(stream) : \A side \in {"source", "destination"} :
            Qualifies(stream[i]) /\ pc # "ingest_raised"
                /\ IpOfLine(stream[i], side) # None =>
                    /\ EventsOfLine(i) # {}
                    /\ \A k \in EventsOfLine(i) :
                        IF IsIpLiteral(IpOfLine(stream[i], side))
                        THEN /\ IpWarnings(i, side) = {}
                             /\ DictGet(events[k], side \o ".ip", None) = IpOfLine(stream[i], side)
                        ELSE /\ Cardinality(IpWarnings(i, side)) = 1
                             /\ DictGet(events[k], side \o ".ip", None) = None
    /\ \A k \in 1..Len(events) : \A side \in {"source", "destination"} :
            \/ DictGet(events[k], side \o ".ip", None) = None
            \/ IsIpLiteral(DictGet(events[k], side \o ".ip", None))

(***************************************************************************)
(* Detection and the histogram return.                                     *)
(***************************************************************************)
\* C12: over the events ingestion returned, whatever their timestamps and messages,
\* detection and the histogram each end with a result: neither ends in an exception.
C12_DetectionAndHistogramNeverRaise ==
    /\ pc # "histogram_raised"
    /\ pc \in {"loaded", "analyzed", "done"} => exc = "none"

(***************************************************************************)
(* Queries whose operators are out of place.                               *)
(***************************************************************************)
IsOperatorToken(t) == Lower(t) \in {"and", "or"}

\* some operator token is not between two conditions: it leads, it trails, or it
\* follows another operator
Misplaced(toks) ==
    /\ toks # <<>>
    /\ \/ IsOperatorToken(toks[1])
       \/ IsOperatorToken(toks[Len(toks)])
       \/ \E i \in 1..(Len(toks) - 1) : IsOperatorToken(toks[i]) /\ IsOperatorToken(toks[i + 1])

\* there is one operator token less than there are conditions (none for no condition)
CountsAgree(toks) ==
    LET nOps   == Len(OperatorTokens(toks))
        nConds == Len(toks) - nOps
    IN nOps = IF nConds > 1 THEN nConds - 1 ELSE 0

SatisfiesAll(ev) ==
    \A j \in 1..Len(conditions) : event_matches_condition(ev, conditions[j])

\* C13: a query with a leading operator, a trailing operator or two operators in a
\* row selects exactly the events that satisfy every one of its conditions.
C13_MisplacedOperatorsJoinWithAnd ==
    pc = "filtered" /\ Misplaced(tokens) => visible = SelectSeq(events, SatisfiesAll)

\* C13, by the count of the operators: a query whose operator tokens are not one less
\* than its conditions selects exactly the events that satisfy every condition; a
\* query with an operator out of place and the count right keeps its operators, in
\* their order, between its conditions: or a:1 b:1 and a:1 b:1 or select a or b.
C13_MiscountedOperatorsJoinWithAnd ==
    pc = "filtered" /\ tokens # <<>> =>
        /\ ~CountsAgree(tokens) => visible = SelectSeq(events, SatisfiesAll)
        /\ Misplaced(tokens) /\ CountsAgree(tokens) =>
                /\ operators = [i \in 1..Len(OperatorTokens(tokens)) |->
                                    Lower(OperatorTokens(tokens)[i])]
                /\ visible = SelectSeq(events, LeftFoldHolds)
        /\ query \in {"or a:1 b:1", "a:1 b:1 or"} =>
                visible = SelectSeq(events, LAMBDA ev : Flag(ev, "a") \/ Flag(ev, "b"))
        /\ query = "a:1 and or b:1" =>
                visible = SelectSeq(events, LAMBDA ev : Flag(ev, "a") /\ Flag(ev, "b"))

\* or a:1 b:1 has selected an event with a and without b
C13_Witness ==
    /\ pc = "filtered"
    /\ query = "or a:1 b:1"
    /\ \E k \in 1..Len(visible) : Flag(visible[k], "a") /\ ~Flag(visible[k], "b")

(***************************************************************************)
(* The stored dataset.                                                     *)
(***************************************************************************)
\* C14: ALL_EVENTS holds the events parsed from the file of the most recent request
\* that carried one, and LAST_FILENAME its name; both are empty before any upload;
\* the visible events of an answered request are what the query selects from it.
C14_StoredEventsAreTheLastUpload ==
    /\ uploaded = NoFile => ALL_EVENTS = <<>> /\ LAST_FILENAME = None
    /\ uploaded # NoFile =>
            /\ LAST_FILENAME = JStr(uploaded.filename)
            /\ ALL_EVENTS = parse_ndjson_file(uploaded.lines).events
    /\ pc = "responded" => visible = filter_events_by_kql(ALL_EVENTS, query).result

====
